---- MODULE Spec2Model ----
(***************************************************************************)
(* Model of src/insn.h: RISC-V instruction bit-field helpers (extract,     *)
(* insert, update for imm12, rd, rs1), the addi recogniser and the addi    *)
(* encoder.                                                                *)
(*                                                                         *)
(* A u32 is modelled as the set of its set bit positions, a subset of      *)
(* 0..31.  This keeps the 32-bit width exact: a left shift loses the bits  *)
(* pushed past bit 31, and ~ complements within 32 bits.                   *)
(*                                                                         *)
(* Source text that is read as evidently intended:                         *)
(*   - the extract functions end in "<< 0" without the semicolon;          *)
(*   - the update functions write GENMASK((31, 20)), a two-argument macro  *)
(*     given one parenthesised argument; it is read as GENMASK(31, 20).    *)
(* riscv_insn_addi is modelled as written: it hands the VALUE of its local *)
(* insn to functions that take a u32 *.                                    *)
(***************************************************************************)
EXTENDS Integers, FiniteSets, Sequences, TLC

VARIABLES insn, old, fn, value, ret, retb, args, stray, fault

vars == <<insn, old, fn, value, ret, retb, args, stray, fault>>

(***************************************************************************)
(* Bounds of the model.                                                    *)
(***************************************************************************)
NInsnBits == 6
NValBits == 4

\* bit positions from which the initial instruction words are built:
\* both ends of every field, the funct3 and opcode bits next to them
InsnProbe == <<7, 11, 12, 19, 20, 31, 15, 6, 14, 8>>
\* bit positions from which the value arguments are built: inside the
\* fields (0, 4), just past the 5-bit fields (5), just past imm12 (12)
ValProbe == <<0, 4, 5, 12, 11, 31, 1>>

(***************************************************************************)
(* u32 arithmetic on bit sets.                                             *)
(***************************************************************************)
U32Bits == 0..31

\* an integer literal of the source (below 2^31) as a u32
U32(n) == {i \in 0..30 : (n \div 2^i) % 2 = 1}

And(X, Y) == X \cap Y
Or(X, Y) == X \cup Y
Not(X) == U32Bits \ X
\* X << s on a u32: bits shifted past bit 31 are lost
Shl(X, s) == {b + s : b \in X} \cap U32Bits
\* X >> s on a u32 (logical)
Shr(X, s) == {b - s : b \in {c \in X : c >= s}}

\* linux/bits.h: bits l..h set
GENMASK(h, l) == l..h

RV_X(X, s, mask) == And(Shr(X, s), mask)

(***************************************************************************)
(* imm12: bits 31:20                                                       *)
(***************************************************************************)
\* the shift done on a signed word and the mask left out
riscv_extract_imm12_sext(w) ==
    Or(Shr(w, 20), IF 31 \in w THEN GENMASK(31, 12) ELSE {})
riscv_extract_imm12(w) == Shl(RV_X(w, 20, GENMASK(11, 0)), 0)

\* the new content of *insn
riscv_insert_imm12(w, v) == Or(w, Shl(RV_X(v, 0, GENMASK(11, 0)), 20))

riscv_update_imm12_noclear(w, v) == riscv_insert_imm12(w, v)
riscv_update_imm12(w, v) ==
    riscv_insert_imm12(And(w, Not(GENMASK(31, 20))), v)

(***************************************************************************)
(* rd: bits 11:7                                                           *)
(***************************************************************************)
riscv_extract_rd(w) == Shl(RV_X(w, 7, GENMASK(4, 0)), 0)

riscv_insert_rd_nomask(w, v) == Or(w, Shl(Shr(v, 0), 7))
riscv_insert_rd(w, v) == Or(w, Shl(RV_X(v, 0, GENMASK(4, 0)), 7))

riscv_update_rd_offbyone(w, v) ==
    riscv_insert_rd(And(w, Not(GENMASK(12, 7))), v)
riscv_update_rd(w, v) ==
    riscv_insert_rd(And(w, Not(GENMASK(11, 7))), v)

(***************************************************************************)
(* rs1: bits 19:15                                                         *)
(***************************************************************************)
riscv_extract_rs1(w) == Shl(RV_X(w, 15, GENMASK(4, 0)), 0)

riscv_insert_rs1_assign(w, v) ==
    Or(And(w, Not(GENMASK(19, 15))), Shl(RV_X(v, 0, GENMASK(4, 0)), 15))
riscv_insert_rs1(w, v) == Or(w, Shl(RV_X(v, 0, GENMASK(4, 0)), 15))

riscv_update_rs1(w, v) ==
    riscv_insert_rs1(And(w, Not(GENMASK(19, 15))), v)

(***************************************************************************)
(* addi                                                                    *)
(***************************************************************************)
riscv_is_addi_op(w) == And(w, U32(\H707f)) = U32(\H33)
riscv_is_addi(w) == And(w, U32(\H707f)) = U32(\H13)

\* The local of riscv_insn_addi: u32 insn = 0b...10011.
AddiLocal == U32(\b00000000000000000000000000010011)

\* riscv_insn_addi passes insn itself, not &insn, to the three insert
\* functions.  The callee's "u32 *insn" is therefore the address made from
\* the integer 0x13, and "*insn |= ..." reads and writes the word there
\* (stray), never the local.  AddiStores is that word after the three calls.
AddiStores(m, rd, rs1, imm12) ==
    riscv_insert_imm12(riscv_insert_rs1(riscv_insert_rd(m, rd), rs1), imm12)

\* The value of "return insn": the local, which no call has changed.
riscv_insn_addi(rd, rs1, imm12) == AddiLocal

(***************************************************************************)
(* Inputs.                                                                 *)
(***************************************************************************)
ProbeSet(seq, n) == {seq[i] : i \in 1..n}

Vals == SUBSET ProbeSet(ValProbe, NValBits)

InsnWords ==
    {Or(base, s) : base \in {{}, AddiLocal},
                   s \in SUBSET ProbeSet(InsnProbe, NInsnBits)}

\* contents the word at the stray address may have
StrayWords == {{}, U32Bits}

NoArgs == [rd |-> {}, rs1 |-> {}, imm12 |-> {}]

(***************************************************************************)
(* Spec: a caller holding one instruction word and applying the field      *)
(* helpers to it.                                                          *)
(***************************************************************************)
Init ==
    /\ insn \in InsnWords
    /\ old = insn
    /\ fn = "none"
    /\ value = {}
    /\ ret = {}
    /\ retb = FALSE
    /\ args = NoArgs
    /\ stray = {}
    /\ fault = FALSE

\* a call r = f(insn) of the function called name, which returned r
Extract(name, r) ==
    /\ fn' = name
    /\ ret' = r
    /\ old' = insn
    /\ value' = {}
    /\ retb' = FALSE
    /\ UNCHANGED <<insn, args, stray, fault>>

\* a call f(&insn, v) of the function called name, which left w in insn
Modify(name, v, w) ==
    /\ fn' = name
    /\ insn' = w
    /\ old' = insn
    /\ value' = v
    /\ ret' = {}
    /\ retb' = FALSE
    /\ UNCHANGED <<args, stray, fault>>

ExtractImm12 == Extract("riscv_extract_imm12", riscv_extract_imm12(insn))

InsertImm12 ==
    \E v \in Vals :
        Modify("riscv_insert_imm12", v, riscv_insert_imm12(insn, v))

UpdateImm12 ==
    \E v \in Vals :
        Modify("riscv_update_imm12", v, riscv_update_imm12(insn, v))

ExtractRd == Extract("riscv_extract_rd", riscv_extract_rd(insn))

InsertRd ==
    \E v \in Vals : Modify("riscv_insert_rd", v, riscv_insert_rd(insn, v))

UpdateRd ==
    \E v \in Vals : Modify("riscv_update_rd", v, riscv_update_rd(insn, v))

ExtractRs1 == Extract("riscv_extract_rs1", riscv_extract_rs1(insn))

InsertRs1 ==
    \E v \in Vals : Modify("riscv_insert_rs1", v, riscv_insert_rs1(insn, v))

UpdateRs1 ==
    \E v \in Vals : Modify("riscv_update_rs1", v, riscv_update_rs1(insn, v))

\* bool b = riscv_is_addi(insn)
IsAddi ==
    /\ fn' = "riscv_is_addi"
    /\ retb' = riscv_is_addi(insn)
    /\ old' = insn
    /\ value' = {}
    /\ ret' = {}
    /\ UNCHANGED <<insn, args, stray, fault>>

Next ==
    \/ ExtractImm12
    \/ InsertImm12
    \/ UpdateImm12
    \/ ExtractRd
    \/ InsertRd
    \/ UpdateRd
    \/ ExtractRs1
    \/ InsertRs1
    \/ UpdateRs1
    \/ IsAddi

Spec == Init /\ [][Next]_vars

(***************************************************************************)
(* SpecAddi: riscv_is_addi(riscv_insn_addi(rd, rs1, imm12)).               *)
(***************************************************************************)
InitAddi ==
    /\ insn = {}
    /\ old = {}
    /\ fn = "none"
    /\ value = {}
    /\ ret = {}
    /\ retb = FALSE
    /\ args \in [rd : Vals, rs1 : Vals, imm12 : Vals]
    /\ stray \in StrayWords
    /\ fault = FALSE

\* The stores through the stray address are undefined behaviour: either the
\* address is writable and the word there takes the inserts, or the first
\* store traps and the function does not return.
AddiReturns ==
    /\ fn = "none"
    /\ fn' = "riscv_insn_addi"
    /\ stray' = AddiStores(stray, args.rd, args.rs1, args.imm12)
    /\ ret' = riscv_insn_addi(args.rd, args.rs1, args.imm12)
    /\ UNCHANGED <<insn, old, value, retb, args, fault>>

AddiTraps ==
    /\ fn = "none"
    /\ fn' = "riscv_insn_addi"
    /\ fault' = TRUE
    /\ UNCHANGED <<insn, old, value, ret, retb, args, stray>>

\* riscv_is_addi applied to the word riscv_insn_addi returned
IsAddiOfResult ==
    /\ fn = "riscv_insn_addi"
    /\ ~fault
    /\ fn' = "riscv_is_addi"
    /\ retb' = riscv_is_addi(ret)
    /\ UNCHANGED <<insn, old, value, ret, args, stray, fault>>

NextAddi ==
    \/ AddiReturns
    \/ AddiTraps
    \/ IsAddiOfResult

SpecAddi == InitAddi /\ [][NextAddi]_vars

(***************************************************************************)
(* Properties.                                                             *)
(***************************************************************************)
\* bits h..l of w, moved down to bit 0
Field(w, h, l) == {b - l : b \in {c \in w : c >= l /\ c <= h}}

\* the number a u32 below 2^31 stands for
RECURSIVE Value(_)
Value(X) ==
    IF X = {} THEN 0
    ELSE LET b == CHOOSE c \in X : TRUE IN 2^b + Value(X \ {b})

Low12 == 0..11
Low5 == 0..4

Inserts == {"riscv_insert_imm12", "riscv_insert_rd", "riscv_insert_rs1"}
Updates == {"riscv_update_imm12", "riscv_update_rd", "riscv_update_rs1"}

\* C1: whenever riscv_insn_addi has returned, the word it returned is
\* 0x13 | ((rd & 0x1f) << 7) | ((rs1 & 0x1f) << 15) | ((imm12 & 0xfff) << 20):
\* opcode bits 6:0 are 0x13, funct3 bits 14:12 are 0, and the three fields
\* hold the masked arguments.
C1_AddiEncodesFields ==
    (fn = "riscv_insn_addi" /\ ~fault) =>
        /\ Field(ret, 6, 0) = U32(\H13)
        /\ Field(ret, 14, 12) = {}
        /\ Field(ret, 11, 7) = args.rd \cap Low5
        /\ Field(ret, 19, 15) = args.rs1 \cap Low5
        /\ Field(ret, 31, 20) = args.imm12 \cap Low12

C3_UpdateExtractRoundTrip ==
    /\ fn = "riscv_update_imm12" =>
           riscv_extract_imm12(insn) = value \cap Low12
    /\ fn = "riscv_update_rd" => riscv_extract_rd(insn) = value \cap Low5
    /\ fn = "riscv_update_rs1" => riscv_extract_rs1(insn) = value \cap Low5

\* an update of imm12 over a field holding bits that the new value lacks,
\* with a value wider than the field
C3_Witness ==
    /\ fn = "riscv_update_imm12"
    /\ 31 \in old
    /\ 20 \in old
    /\ value = {4, 12}
    /\ riscv_extract_imm12(insn) = {4}

\* C4: each extract returns exactly its field moved down to bit 0 and
\* zero-extended: bit i of the result is bit i+20 (imm12), i+7 (rd) or
\* i+15 (rs1) of insn for i inside the field width and 0 above it, so the
\* result is below 4096 for imm12 and below 32 for rd and rs1.
C4_ExtractIsField ==
    /\ fn = "riscv_extract_imm12" =>
           /\ ret = {i \in U32Bits : i <= 11 /\ i + 20 \in old}
           /\ ret \subseteq Low12
           /\ Value(ret) < 4096
    /\ fn = "riscv_extract_rd" =>
           /\ ret = {i \in U32Bits : i <= 4 /\ i + 7 \in old}
           /\ ret \subseteq Low5
           /\ Value(ret) < 32
    /\ fn = "riscv_extract_rs1" =>
           /\ ret = {i \in U32Bits : i <= 4 /\ i + 15 \in old}
           /\ ret \subseteq Low5
           /\ Value(ret) < 32

\* imm12 extracted from a word with the sign bit of the immediate set and
\* with bits set below the field
C4_Witness ==
    /\ fn = "riscv_extract_imm12"
    /\ {31, 20, 19, 7} \subseteq old
    /\ ret = {0, 11}
    /\ Value(ret) = 2049

\* C5: an update changes only its own field: riscv_update_imm12 leaves bits
\* 19:0 alone, riscv_update_rd bits 31:12 and 6:0, riscv_update_rs1 bits
\* 31:20 and 14:0; no update changes the opcode (6:0) or funct3 (14:12).
C5_UpdateFrame ==
    /\ fn = "riscv_update_imm12" => Field(insn, 19, 0) = Field(old, 19, 0)
    /\ fn = "riscv_update_rd" =>
           /\ Field(insn, 31, 12) = Field(old, 31, 12)
           /\ Field(insn, 6, 0) = Field(old, 6, 0)
    /\ fn = "riscv_update_rs1" =>
           /\ Field(insn, 31, 20) = Field(old, 31, 20)
           /\ Field(insn, 14, 0) = Field(old, 14, 0)
    /\ fn \in Updates =>
           /\ Field(insn, 6, 0) = Field(old, 6, 0)
           /\ Field(insn, 14, 12) = Field(old, 14, 12)

\* rd rewritten in a word whose neighbouring bits 12 and 6..0 are set
C5_Witness ==
    /\ fn = "riscv_update_rd"
    /\ {12, 11, 4, 1, 0} \subseteq old
    /\ 11 \notin insn
    /\ Field(insn, 11, 7) # Field(old, 11, 7)

\* C6: an insert uses only the low 12 (imm12) or 5 (rd, rs1) bits of v:
\* the result is what inserting the masked v gives, and no bit of the word
\* outside the field 31:20, 11:7 or 19:15 changes.
C6_InsertMasksValue ==
    /\ fn = "riscv_insert_imm12" =>
           /\ insn = riscv_insert_imm12(old, value \cap Low12)
           /\ Field(insn, 19, 0) = Field(old, 19, 0)
    /\ fn = "riscv_insert_rd" =>
           /\ insn = riscv_insert_rd(old, value \cap Low5)
           /\ Field(insn, 31, 12) = Field(old, 31, 12)
           /\ Field(insn, 6, 0) = Field(old, 6, 0)
    /\ fn = "riscv_insert_rs1" =>
           /\ insn = riscv_insert_rs1(old, value \cap Low5)
           /\ Field(insn, 31, 20) = Field(old, 31, 20)
           /\ Field(insn, 14, 0) = Field(old, 14, 0)

\* rd inserted from a value with bit 5 set into a word with bit 12 clear
C6_Witness ==
    /\ fn = "riscv_insert_rd"
    /\ {0, 5} \subseteq value
    /\ 12 \notin old
    /\ 7 \notin old
    /\ 7 \in insn

\* the field of the last insert: before, after, and the masked value
InsOld ==
    CASE fn = "riscv_insert_imm12" -> Field(old, 31, 20)
      [] fn = "riscv_insert_rd" -> Field(old, 11, 7)
      [] fn = "riscv_insert_rs1" -> Field(old, 19, 15)
      [] OTHER -> {}
InsNew ==
    CASE fn = "riscv_insert_imm12" -> Field(insn, 31, 20)
      [] fn = "riscv_insert_rd" -> Field(insn, 11, 7)
      [] fn = "riscv_insert_rs1" -> Field(insn, 19, 15)
      [] OTHER -> {}
InsMasked ==
    CASE fn = "riscv_insert_imm12" -> value \cap Low12
      [] OTHER -> value \cap Low5
InsAsUpdate ==
    CASE fn = "riscv_insert_imm12" -> riscv_update_imm12(old, value)
      [] fn = "riscv_insert_rd" -> riscv_update_rd(old, value)
      [] fn = "riscv_insert_rs1" -> riscv_update_rs1(old, value)
      [] OTHER -> insn
InsExtract ==
    CASE fn = "riscv_insert_imm12" -> riscv_extract_imm12(insn)
      [] fn = "riscv_insert_rd" -> riscv_extract_rd(insn)
      [] fn = "riscv_insert_rs1" -> riscv_extract_rs1(insn)
      [] OTHER -> {}

\* C7: an insert ORs into the field: afterwards the field holds
\* (old field) | (v & mask), so no set bit is cleared; the result equals
\* that of the matching update exactly when the old field has no bit set
\* that v & mask lacks, and extract after insert returns v & mask exactly
\* in that case.
C7_InsertOrsIntoField ==
    fn \in Inserts =>
        /\ InsNew = InsOld \cup InsMasked
        /\ old \subseteq insn
        /\ (insn = InsAsUpdate) <=> (InsOld \subseteq InsMasked)
        /\ (InsExtract = InsMasked) <=> (InsOld \subseteq InsMasked)

\* rs1 inserted over a field holding a bit the value lacks: the insert and
\* the update differ
C7_Witness ==
    /\ fn = "riscv_insert_rs1"
    /\ InsOld = {4}
    /\ InsMasked = {0}
    /\ InsNew = {0, 4}
    /\ insn # InsAsUpdate

\* rd inserted into an empty field: the insert and the update agree
C7_WitnessAgree ==
    /\ fn = "riscv_insert_rd"
    /\ InsOld = {}
    /\ InsMasked = {0, 4}
    /\ insn = InsAsUpdate

====
